---------------------------- MODULE Spec2Model ----------------------------
(***************************************************************************)
(* Model of scripts/add_widget_target.py: main() loads the Xcode project   *)
(* descriptor through the pbxproj library, stops if a target named         *)
(* WIDGET_TARGET_NAME exists, otherwise asks the library to add every      *)
(* shared source that exists on disk to the 'Dequeue' target, saves the    *)
(* project and prints follow-up instructions.  The script is run up to     *)
(* MaxRuns times in succession on the same project file.                   *)
(*                                                                         *)
(* The project descriptor is modelled by the entries the script can        *)
(* observe or cause: the set of target names, the number of file           *)
(* references per project-relative path and the number of build-file       *)
(* entries per (path, target).  Build settings and the textual layout of   *)
(* the descriptor belong to the library and are not modelled.              *)
(***************************************************************************)
EXTENDS Integers, Sequences, FiniteSets, TLC

\* ---------------------------------------------------------------- bounds
\* Number of successive invocations of the script on the same project.
MaxRuns == 3
\* Largest number of references to a shared source already in the project
\* before the first run.
MaxInitRefs == 1

\* ------------------------------------------------------------- constants
WIDGET_TARGET_NAME == "DequeueWidgets"

WIDGET_BUNDLE_ID == "com.ardonos.Dequeue.widgets"

WIDGET_SOURCES ==
    << "DequeueWidgets/DequeueWidgetBundle.swift",
       "DequeueWidgets/ActiveStackWidget.swift",
       "DequeueWidgets/UpNextWidget.swift",
       "DequeueWidgets/QuickStatsWidget.swift" >>

SHARED_SOURCES == << "Shared/WidgetModels.swift" >>

\* Variant: the file is added to the widget target.
target_nameWidget == WIDGET_TARGET_NAME

\* The keyword argument target_name='Dequeue' of the add_file call.
target_name == "Dequeue"

\* Variant: the add loop also iterates over the widget sources.
SourcesToAddAll == SHARED_SOURCES \o WIDGET_SOURCES

\* The list the add loop iterates over: for source in SHARED_SOURCES.
SourcesToAdd == SHARED_SOURCES

\* ---------------------------------------------------------------- helpers
Range(s) == { s[k] : k \in 1..Len(s) }

\* A source of the project that is neither shared nor a widget source.
AppSource == "DequeueApp.swift"

\* The app target of the project.
MainTargetName == "Dequeue"

\* A target of the project other than the app and the widget extension.
OtherTargetName == "DequeueTests"

TargetNames == { MainTargetName, WIDGET_TARGET_NAME, OtherTargetName }

Paths == Range(SHARED_SOURCES) \cup Range(WIDGET_SOURCES) \cup { AppSource }

\* full_path = os.path.join(<root>, 'Dequeue', source)
FullPath(source) == << "Dequeue", source >>

\* The library stores a file under its path relative to the source root
\* (the directory that holds Dequeue.xcodeproj, i.e. <root>/Dequeue).
RelPath(full_path) == full_path[2]

\* The project descriptor when the file is missing or cannot be parsed.
NoProject ==
    [ ok |-> FALSE, targets |-> {},
      refs |-> [ p \in Paths |-> 0 ],
      builds |-> [ e \in Paths \X TargetNames |-> 0 ] ]

\* A well-formed project with the given targets in which the app source is
\* referenced once and a shared source n times, each built by the app target.
MakeProject(ts, n) ==
    [ ok |-> TRUE, targets |-> ts,
      refs |-> [ p \in Paths |->
                   IF p = AppSource THEN 1
                   ELSE IF p \in Range(SHARED_SOURCES) THEN n ELSE 0 ],
      builds |-> [ e \in Paths \X TargetNames |->
                   IF e[2] # MainTargetName \/ MainTargetName \notin ts THEN 0
                   ELSE IF e[1] = AppSource THEN 1
                   ELSE IF e[1] \in Range(SHARED_SOURCES) THEN n ELSE 0 ] ]

\* Return values of add_file: None, or a list of the build files created.
None == [ kind |-> "None", items |-> << >> ]

List(items) == [ kind |-> "list", items |-> items ]

\* Variant: `if result is not None:`.
TruthyNotNone(result) == result.kind = "list"

\* Python truthiness of an add_file return value: `if result:`.
Truthy(result) == result.kind = "list" /\ Len(result.items) > 0

\* Variant: the guard is missing.
TargetExistsNever(proj) == FALSE

\* Variant: the guard fires on any target, whatever its name.
TargetExistsAny(proj) == proj.targets # {}

\* project.objects.get_targets() holds a target named WIDGET_TARGET_NAME.
TargetExists(proj) == \E target \in proj.targets : target = WIDGET_TARGET_NAME

\* project.add_file(full_path, parent=None, target_name=...) as the library
\* performs it when it returns a list.  force is the library's keyword
\* argument, which the script leaves at its default (True): only with
\* force=False does the library look for an existing reference and return
\* an empty list without touching the project.  Otherwise it creates a file
\* reference for the path and one build file per target named tname.
add_file(proj, full_path, tname, force) ==
    LET path == RelPath(full_path) IN
    IF ~force /\ proj.refs[path] > 0
    THEN [ proj |-> proj, result |-> List(<< >>) ]
    ELSE LET hit == tname \in proj.targets IN
         [ proj |-> [ proj EXCEPT
                        !.refs[path] = @ + 1,
                        !.builds[<<path, tname>>] =
                            IF hit THEN @ + 1 ELSE @ ],
           result |-> List(IF hit THEN << <<path, tname>> >>
                                  ELSE << >>) ]

\* The default value of add_file's force parameter.
DefaultForce == TRUE

Line(kind, arg) == [ kind |-> kind, arg |-> arg ]

\* if result: print("Added ...") else: print("... may already exist ...")
StatusLine(source, result) ==
    IF Truthy(result) THEN Line("Added", source) ELSE Line("MayExist", source)

\* The fixed block of follow-up instructions.
FollowUpLines ==
    << Line("Blank", ""), Line("Note", WIDGET_TARGET_NAME), Line("Blank", ""),
       Line("WidgetFilesHeader", "") >>
    \o [ k \in 1..Len(WIDGET_SOURCES) |-> Line("WidgetFile", WIDGET_SOURCES[k]) ]
    \o << Line("SharedBoth", "Shared/WidgetModels.swift") >>

\* ------------------------------------------------------------------ state
VARIABLES
    disk,           \* the project descriptor as persisted on disk
    files,          \* full paths of the source files that exist on disk
    project,        \* the in-memory handle returned by XcodeProject.load
    pc,             \* position of the running main()
    i,              \* index of the next source of the add loop
    out,            \* lines printed by the current run
    ops,            \* project operations of the current run, in order
    calls,          \* add_file calls of the current run
    written,        \* number of times the current run wrote the descriptor
    failure,        \* operation whose failure ended the current run
    run,            \* number of the current run
    atLoad,         \* the persisted descriptor when the current run began
    initial,        \* the persisted descriptor before the first run
    persistedAfter  \* the persisted descriptor after each finished run

vars == << disk, files, project, pc, i, out, ops, calls, written, failure,
           run, atLoad, initial, persistedAfter >>

Init ==
    /\ disk \in { MakeProject(ts, n) :
                    ts \in SUBSET TargetNames, n \in 0..MaxInitRefs }
                \cup { NoProject }
    /\ files \in SUBSET { FullPath(SHARED_SOURCES[1]), FullPath(WIDGET_SOURCES[1]) }
    /\ project = NoProject
    /\ pc = "start"
    /\ i = 1
    /\ out = << >>
    /\ ops = << >>
    /\ calls = << >>
    /\ written = 0
    /\ failure = "none"
    /\ run = 1
    /\ atLoad = disk
    /\ initial = disk
    /\ persistedAfter = << >>

\* ---------------------------------------------------------------- actions
\* print("Loading project"); project = XcodeProject.load(PROJECT_PATH)
Load ==
    /\ pc = "start"
    /\ disk.ok
    /\ out' = Append(out, Line("Loading", ""))
    /\ ops' = Append(ops, "load")
    /\ project' = disk
    /\ pc' = "check"
    /\ UNCHANGED << disk, files, i, calls, written, failure, run, atLoad,
                    initial, persistedAfter >>

\* The load raises: the descriptor is missing or malformed.  Nothing
\* catches it, main() ends.
LoadFails ==
    /\ pc = "start"
    /\ ~disk.ok
    /\ out' = Append(out, Line("Loading", ""))
    /\ ops' = Append(ops, "load")
    /\ failure' = "load"
    /\ pc' = "failed"
    /\ persistedAfter' = Append(persistedAfter, disk)
    /\ UNCHANGED << disk, files, project, i, calls, written, run, atLoad,
                    initial >>

\* for target in project.objects.get_targets(): if target.name == ...: return
CheckTargets ==
    /\ pc = "check"
    /\ ops' = Append(ops, "check")
    /\ IF TargetExists(project)
       THEN /\ out' = Append(out, Line("Exists", WIDGET_TARGET_NAME))
            /\ pc' = "skipped"
            /\ persistedAfter' = Append(persistedAfter, disk)
       ELSE /\ out' = Append(out, Line("Adding", ""))
            /\ pc' = "loop"
            /\ UNCHANGED persistedAfter
    /\ UNCHANGED << disk, files, project, i, calls, written, failure, run,
                    atLoad, initial >>

\* One iteration of the add loop whose os.path.exists(full_path) is false.
SkipMissing ==
    /\ pc = "loop"
    /\ i <= Len(SourcesToAdd)
    /\ FullPath(SourcesToAdd[i]) \notin files
    /\ i' = i + 1
    /\ UNCHANGED << disk, files, project, pc, out, ops, calls, written,
                    failure, run, atLoad, initial, persistedAfter >>

\* One iteration of the add loop for a file that exists: the add_file call
\* returns and the status line is printed.  The library returns None,
\* leaving the project alone, when it cannot resolve the path (the file
\* went away after the existence test); otherwise it returns a list.
AddFile ==
    /\ pc = "loop"
    /\ i <= Len(SourcesToAdd)
    /\ LET source == SourcesToAdd[i]
           full_path == FullPath(source) IN
       /\ full_path \in files
       /\ \E r \in { add_file(project, full_path, target_name, DefaultForce),
                     [ proj |-> project, result |-> None ] } :
            /\ project' = r.proj
            /\ calls' = Append(calls, [ path |-> full_path,
                                        target |-> target_name,
                                        ret |-> r.result ])
            /\ out' = Append(out, StatusLine(source, r.result))
    /\ ops' = Append(ops, "add_file")
    /\ i' = i + 1
    /\ UNCHANGED << disk, files, pc, written, failure, run, atLoad, initial,
                    persistedAfter >>

\* Variant: the failure of add_file is caught and the loop goes on.
AddFileFailsSwallowed ==
    /\ pc = "loop"
    /\ i <= Len(SourcesToAdd)
    /\ FullPath(SourcesToAdd[i]) \in files
    /\ ops' = Append(ops, "add_file")
    /\ failure' = "add_file"
    /\ i' = i + 1
    /\ UNCHANGED << disk, files, project, pc, out, calls, written, run,
                    atLoad, initial, persistedAfter >>

\* The add_file call raises.  Nothing catches it, main() ends.
AddFileFails ==
    /\ pc = "loop"
    /\ i <= Len(SourcesToAdd)
    /\ FullPath(SourcesToAdd[i]) \in files
    /\ ops' = Append(ops, "add_file")
    /\ failure' = "add_file"
    /\ pc' = "failed"
    /\ persistedAfter' = Append(persistedAfter, disk)
    /\ UNCHANGED << disk, files, project, i, out, calls, written, run,
                    atLoad, initial >>

\* Variant: the save does not wait for the end of the add loop.
SaveEarly ==
    /\ pc = "loop"
    /\ out' = out \o << Line("Saving", ""), Line("Done", "") >>
    /\ ops' = Append(ops, "save")
    /\ disk' = project
    /\ written' = written + 1
    /\ pc' = "followup"
    /\ UNCHANGED << files, project, i, calls, failure, run, atLoad, initial,
                    persistedAfter >>

\* Variant: the project is saved only if some add_file call added a file.
SaveIfAdded ==
    /\ pc = "loop"
    /\ i > Len(SourcesToAdd)
    /\ IF \E k \in 1..Len(calls) : Truthy(calls[k].ret)
       THEN /\ out' = out \o << Line("Saving", ""), Line("Done", "") >>
            /\ ops' = Append(ops, "save")
            /\ disk' = project
            /\ written' = written + 1
       ELSE /\ out' = Append(out, Line("Done", ""))
            /\ UNCHANGED << ops, disk, written >>
    /\ pc' = "followup"
    /\ UNCHANGED << files, project, i, calls, failure, run, atLoad, initial,
                    persistedAfter >>

\* print("Saving project..."); project.save(); print("Done! ...")
Save ==
    /\ pc = "loop"
    /\ i > Len(SourcesToAdd)
    /\ out' = out \o << Line("Saving", ""), Line("Done", "") >>
    /\ ops' = Append(ops, "save")
    /\ disk' = project
    /\ written' = written + 1
    /\ pc' = "followup"
    /\ UNCHANGED << files, project, i, calls, failure, run, atLoad, initial,
                    persistedAfter >>

\* The prints after the save; main() then returns.
FollowUp ==
    /\ pc = "followup"
    /\ out' = out \o FollowUpLines
    /\ ops' = Append(ops, "followup")
    /\ pc' = "done"
    /\ persistedAfter' = Append(persistedAfter, disk)
    /\ UNCHANGED << disk, files, project, i, calls, written, failure, run,
                    atLoad, initial >>

\* if __name__ == '__main__': main() -- the script is invoked again after
\* the previous invocation has ended.
StartRun ==
    /\ pc \in { "done", "skipped", "failed" }
    /\ run < MaxRuns
    /\ run' = run + 1
    /\ pc' = "start"
    /\ project' = NoProject
    /\ i' = 1
    /\ out' = << >>
    /\ ops' = << >>
    /\ calls' = << >>
    /\ written' = 0
    /\ failure' = "none"
    /\ atLoad' = disk
    /\ UNCHANGED << disk, files, initial, persistedAfter >>

Next ==
    \/ Load
    \/ LoadFails
    \/ CheckTargets
    \/ SkipMissing
    \/ AddFile
    \/ AddFileFails
    \/ Save
    \/ FollowUp
    \/ StartRun

Spec == Init /\ [][Next]_vars

\* ------------------------------------------------------------ properties
Count(s, x) == Cardinality({ k \in 1..Len(s) : s[k] = x })

HasLine(kind) == \E k \in 1..Len(out) : out[k].kind = kind

\* The current run got past the add loop's iteration number k.
Passed(k) == pc \in { "loop", "followup", "done" } /\ i > k

\* The falsy return values of add_file: None and the empty list.
Falsy(ret) == ret = None \/ ret = List(<< >>)

\* Position of an operation in the flow load, check, add, save, follow-up.
Rank(op) ==
    CASE op = "load" -> 1
      [] op = "check" -> 2
      [] op = "add_file" -> 3
      [] op = "save" -> 4
      [] op = "followup" -> 5

\* C1: running the script twice is idempotent: the project persisted after
\* the second run equals the project persisted after the first run, so no
\* path of SHARED_SOURCES gets a second reference or build-file entry.
Claim_C1_Idempotent ==
    Len(persistedAfter) >= 2 => persistedAfter[2] = persistedAfter[1]

\* C2: a shared source that is missing on disk is skipped without an
\* add_file call and without ending the run, and a status message naming
\* that path is printed.
Claim_C2_MissingNamed ==
    \A k \in 1..Len(SHARED_SOURCES) :
        (Passed(k) /\ FullPath(SHARED_SOURCES[k]) \notin files) =>
            /\ \A j \in 1..Len(calls) :
                   calls[j].path # FullPath(SHARED_SOURCES[k])
            /\ failure = "none"
            /\ \E j \in 1..Len(out) : out[j].arg = SHARED_SOURCES[k]

Thm_C4_Guard ==
    Count(ops, "check") > 0 =>
        IF WIDGET_TARGET_NAME \in atLoad.targets
        THEN /\ pc = "skipped"
             /\ out[Len(out)] = Line("Exists", WIDGET_TARGET_NAME)
             /\ calls = << >>
             /\ Count(ops, "add_file") = 0
             /\ Count(ops, "save") = 0
             /\ written = 0
             /\ disk = atLoad
        ELSE /\ pc # "skipped"
             /\ ~HasLine("Exists")

\* The guard stopped a run on a project that has both targets.
Wit_C4_Guard ==
    /\ pc = "skipped"
    /\ { MainTargetName, WIDGET_TARGET_NAME } \subseteq atLoad.targets
    /\ FullPath(SHARED_SOURCES[1]) \in files

\* C5: a failure of the load or of an add_file call ends the run there:
\* the failing operation is the last one of the run, nothing was saved and
\* the persisted project is the one the run started from.
Thm_C5_FailureStops ==
    failure # "none" =>
        /\ pc = "failed"
        /\ ops[Len(ops)] = failure
        /\ Count(ops, "save") = 0
        /\ written = 0
        /\ disk = atLoad
        /\ ~HasLine("Saving") /\ ~HasLine("Done") /\ ~HasLine("Note")

\* An add_file call failed on a loaded project.
Wit_C5_FailureStops ==
    /\ failure = "add_file"
    /\ pc = "failed"
    /\ project.ok
    /\ MainTargetName \in project.targets

\* C6: the operations of a run occur in the order load, target check,
\* add_file calls, save, follow-up: the load is first and happens once, the
\* save happens at most once and only after add_file has returned for every
\* shared source that exists, and the follow-up block is printed only after
\* the save, never on the guard path or after a failure.
Thm_C6_Order ==
    /\ pc # "start" => Count(ops, "load") = 1 /\ ops[1] = "load"
    /\ \A j, k \in 1..Len(ops) :
         j < k => \/ Rank(ops[j]) < Rank(ops[k])
                  \/ ops[j] = "add_file" /\ ops[k] = "add_file"
    /\ \A k \in 2..Len(ops) :
         /\ ops[k] = "check" => ops[k-1] = "load"
         /\ ops[k] \in { "add_file", "save" } =>
                ops[k-1] \in { "check", "add_file" }
         /\ ops[k] = "followup" => ops[k-1] = "save"
    /\ Count(ops, "save") > 0 =>
         \A k \in 1..Len(SHARED_SOURCES) :
            FullPath(SHARED_SOURCES[k]) \in files =>
               \E j \in 1..Len(calls) :
                  calls[j].path = FullPath(SHARED_SOURCES[k])
    /\ Count(ops, "save") = written
    /\ HasLine("Note") =>
         pc = "done" /\ written = 1 /\ ops[Len(ops)] = "followup"
    /\ pc \in { "skipped", "failed" } =>
         ~HasLine("Note") /\ Count(ops, "followup") = 0

\* A run went through all five steps, with an add_file call.
Wit_C6_Order ==
    /\ pc = "done"
    /\ ops = << "load", "check", "add_file", "save", "followup" >>

\* C7: for each shared source that exists on disk and whose loop iteration
\* is over, there was exactly one add_file call and exactly one status
\* line, 'Added' iff the call returned a truthy value and 'may already
\* exist' iff it returned a falsy one.
Thm_C7_StatusLine ==
    \A k \in 1..Len(SHARED_SOURCES) :
        (Passed(k) /\ FullPath(SHARED_SOURCES[k]) \in files) =>
            LET cs == { j \in 1..Len(calls) :
                          calls[j].path = FullPath(SHARED_SOURCES[k]) }
                ls == { j \in 1..Len(out) :
                          /\ out[j].arg = SHARED_SOURCES[k]
                          /\ out[j].kind \in { "Added", "MayExist" } }
            IN  /\ Cardinality(cs) = 1
                /\ Cardinality(ls) = 1
                /\ \A c \in cs, l \in ls :
                     /\ out[l].kind = "Added" <=> ~Falsy(calls[c].ret)
                     /\ out[l].kind = "MayExist" <=> Falsy(calls[c].ret)

\* An add_file call returned an empty list and the 'may already exist'
\* line was printed for it.
Wit_C7_StatusLine ==
    /\ Passed(1)
    /\ Len(calls) = 1
    /\ calls[1].ret = List(<< >>)
    /\ HasLine("MayExist")

Thm_C10_AlwaysSaves ==
    pc \in { "followup", "done" } =>
        /\ Count(ops, "save") = 1
        /\ written = 1
        /\ disk = project
        /\ Cardinality({ k \in 1..Len(out) : out[k].kind = "Done" }) = 1
        /\ Cardinality({ k \in 1..Len(out) : out[k].kind = "Saving" }) = 1

\* A run saved although the shared source was missing and nothing was added.
Wit_C10_AlwaysSaves ==
    /\ pc = "done"
    /\ calls = << >>
    /\ FullPath(SHARED_SOURCES[1]) \notin files
    /\ written = 1
    /\ disk = atLoad

=============================================================================
